---- MODULE Spec2Model ----
(***************************************************************************)
(* Holiday and lunar-date classification of the calendar component         *)
(* (src/src/components/Calendar.tsx) and the page around it                *)
(* (src/src/App.tsx).                                                      *)
(*                                                                         *)
(* Dates are JavaScript Date values at local midnight, modelled by their   *)
(* day number (days since 1970-01-01).  Holiday names are modelled by the  *)
(* tuple of their words, romanised: String.includes(keyword) is "one of    *)
(* the words is the keyword".                                              *)
(*   Jeheonjeol = Constitution Day     Chuseok = Harvest Festival          *)
(*   Seollal = Lunar New Year          Yeonhyu = "holiday (span day)"      *)
(*   Sinjeong = New Year's Day         Eorininal = Children's Day          *)
(*   Hyeonchungil = Memorial Day       Daechegonghyuil = substitute holiday*)
(***************************************************************************)
EXTENDS Integers, Sequences, FiniteSets, TLC

VARIABLES
    lunarTable,     \* the converter: day number -> lunar date, or a failure
    holidaySource,  \* the holiday source: year -> list of raw entries
    holidayCache,   \* holidayCache.current : year -> list
    lunarCache,     \* lunarCache.current   : <<year, month, day>> -> marker
    calendarCache,  \* calendarCache.current: <<year, monthIndex>> -> weeks
    fetchCount,     \* calls of holidays.getHolidays(year) in this page load
    ncalls,         \* engine calls made in this page load
    last,           \* the last engine call and its outcome
    currentDate,    \* App: the state currentDate, as [year, month (0-based)]
    url,            \* the year and month parameters of window.location
    urlUpdateTimer, \* App: urlUpdateTimer.current, a timer handle (0: null)
    timers,         \* the browser's pending timeouts
    nchanges,       \* how many times currentDate was set in this page load
    history,        \* the changes replaced early, the timers that ran
    isMobile,       \* Calendar: the page is shown on a mobile device
    endlessCalendarData, \* Calendar: the months of the mobile view
    windowOffsetRef,     \* Calendar: windowOffsetRef.current
    isUpdatingData, \* Calendar: isUpdatingData.current
    scrollTop,      \* the mobile view's scrollTop, in heights of a month
    frames          \* the requestAnimationFrame callback that is pending

env  == <<lunarTable, holidaySource>>
engine == <<lunarTable, holidaySource, holidayCache, lunarCache,
            calendarCache, fetchCount, ncalls, last>>
app  == <<currentDate, url, urlUpdateTimer, timers, nchanges, history>>
mobile == <<isMobile, endlessCalendarData, windowOffsetRef, isUpdatingData,
            scrollTop, frames>>
vars == <<lunarTable, holidaySource, holidayCache, lunarCache,
          calendarCache, fetchCount, ncalls, last,
          currentDate, url, urlUpdateTimer, timers, nchanges, history,
          isMobile, endlessCalendarData, windowOffsetRef, isUpdatingData,
          scrollTop, frames>>

-----------------------------------------------------------------------------
(* Bounds of the model *)

\* engine calls explored per page load
MaxCalls == 2
\* raw entries the holiday source lists per year
MaxEntries == 2
\* days the next-workday walk is followed before it is reported as diverging
MaxWalk == 24
\* times currentDate is set per page load, the initial value included
MaxChanges == 3
\* shifts of the mobile window followed in one direction from the base month
MaxShifts == 3

-----------------------------------------------------------------------------
(* JavaScript Date arithmetic *)

\* day number of day d of month mp (0 = March) of the year yy that starts
\* in March
DaysFromMarch(yy, mp, d) ==
    (yy \div 400) * 146097 + (yy % 400) * 365 + (yy % 400) \div 4
        - (yy % 400) \div 100 + (153 * mp + 2) \div 5 + d - 1 - 719468

\* day number of the civil date y-m-d (m in 1..12)
DaysFromCivil(y, m, d) ==
    DaysFromMarch(IF m <= 2 THEN y - 1 ELSE y,
                  IF m > 2 THEN m - 3 ELSE m + 9, d)

YearOfEra(doe) ==
    (doe - doe \div 1460 + doe \div 36524 - doe \div 146096) \div 365

DayOfYear(doe, yoe) == doe - (365 * yoe + yoe \div 4 - yoe \div 100)

CivilFromMonth(y, doy, mp) ==
    [year  |-> IF mp < 10 THEN y ELSE y + 1,
     month |-> IF mp < 10 THEN mp + 3 ELSE mp - 9,
     date  |-> doy - (153 * mp + 2) \div 5 + 1]

CivilFromDayOfYear(y, doy) == CivilFromMonth(y, doy, (5 * doy + 2) \div 153)

CivilFromDayOfEra(era, doe) ==
    CivilFromDayOfYear(era * 400 + YearOfEra(doe),
                       DayOfYear(doe, YearOfEra(doe)))

\* the civil date of a day number: getFullYear(), getMonth() + 1, getDate()
CivilFromDays(z) ==
    CivilFromDayOfEra((z + 719468) \div 146097, (z + 719468) % 146097)

\* new Date(year, monthIndex, day): out-of-range months and days roll over
NewDate(year, monthIndex, day) ==
    DaysFromCivil(year + monthIndex \div 12, (monthIndex % 12) + 1, 1) + day - 1

\* Date.prototype.getDay(): 0 = Sunday .. 6 = Saturday
GetDay(date) == (date + 4) % 7

\* new Date(year, month + 1, 0).getDate()
GetDaysInMonth(year, monthIndex) ==
    CivilFromDays(NewDate(year, monthIndex + 1, 0)).date

\* a well-formed solar date: the triple names the day it rolls to
IsValidDate(year, month, day) ==
    /\ month \in 1..12
    /\ day \in 1..31
    /\ CivilFromDays(NewDate(year, month - 1, day)) =
           [year |-> year, month |-> month, date |-> day]

-----------------------------------------------------------------------------
(* Holiday names *)

Includes(name, keyword) == \E i \in 1..Len(name) : name[i] = keyword

Jeheonjeol      == <<"Jeheonjeol">>
Chuseok         == <<"Chuseok">>
ChuseokYeonhyu  == <<"Chuseok", "Yeonhyu">>
Seollal         == <<"Seollal">>
SeollalYeonhyu  == <<"Seollal", "Yeonhyu">>
Sinjeong        == <<"Sinjeong">>
Eorininal       == <<"Eorininal">>
Hyeonchungil    == <<"Hyeonchungil">>
Daechegonghyuil == <<"Daechegonghyuil">>

-----------------------------------------------------------------------------
(* The solar-to-lunar converter (korean-lunar-calendar) *)

ConversionFailed == [ok |-> FALSE, month |-> 0, day |-> 0]
Lunar(m, d)      == [ok |-> TRUE, month |-> m, day |-> d]

\* The conversion of a Date value "date":
\* lunar.setSolarDate(date.getFullYear(), date.getMonth() + 1, date.getDate());
\* lunar.getLunarCalendar().  A date the converter's table does not cover
\* throws.
ToLunarOfDate(date) ==
    IF date \in DOMAIN lunarTable THEN lunarTable[date] ELSE ConversionFailed

\* lunar.setSolarDate(year, month, day); lunar.getLunarCalendar()
\* with the caller's own numbers: a malformed date throws.
ToLunar(year, month, day) ==
    IF IsValidDate(year, month, day)
    THEN ToLunarOfDate(NewDate(year, month - 1, day))
    ELSE ConversionFailed

-----------------------------------------------------------------------------
(* Lunar holiday spans: getLunarHolidayInfo *)

NoHoliday == [name |-> <<>>, type |-> "", error |-> ""]
Holiday(name, type) == [name |-> name, type |-> type, error |-> ""]

\* The body of getLunarHolidayInfo on the three conversions it makes.
\* "error" is the exception that leaves the function ("" when it returns):
\* the whole body is inside try/catch, and so are the two neighbour probes.
LunarHolidayOf(lunarDate, tomorrowLunarDate, yesterdayLunarDate) ==
        IF ~lunarDate.ok THEN NoHoliday
        ELSE IF lunarDate.month = 1 /\ lunarDate.day = 1
             THEN Holiday(Seollal, "lunar_new_year")
        ELSE IF /\ tomorrowLunarDate.ok
                /\ tomorrowLunarDate.month = 1 /\ tomorrowLunarDate.day = 1
             THEN Holiday(SeollalYeonhyu, "lunar_new_year")
        ELSE IF /\ yesterdayLunarDate.ok
                /\ yesterdayLunarDate.month = 1 /\ yesterdayLunarDate.day = 1
             THEN Holiday(SeollalYeonhyu, "lunar_new_year")
        ELSE IF lunarDate.month = 8 /\ lunarDate.day \in {14, 15, 16}
             THEN IF lunarDate.day = 15
                  THEN Holiday(Chuseok, "chuseok")
                  ELSE Holiday(ChuseokYeonhyu, "chuseok")
        ELSE NoHoliday

GetLunarHolidayInfo(year, month, day) ==
    LunarHolidayOf(ToLunar(year, month, day),
                   ToLunarOfDate(NewDate(year, month - 1, day + 1)),
                   ToLunarOfDate(NewDate(year, month - 1, day - 1)))

\* getLunarHolidayInfo(date.getFullYear(), date.getMonth() + 1, date.getDate())
GetLunarHolidayInfoOfDate(date) ==
    LunarHolidayOf(ToLunarOfDate(date), ToLunarOfDate(date + 1),
                   ToLunarOfDate(date - 1))

-----------------------------------------------------------------------------
(* Substitution groups: getHolidaySubstituteType *)

group1Holidays == {"Samiljeol", "31jeol", "Gwangbokjeol", "Gaecheonjeol",
                   "Hangeullal", "Eorininal"}
group2Holidays == {"Seollal", "Chuseok"}
group3Holidays == {"Sinjeong", "BucheonimOsinnal", "Hyeonchungil",
                   "Gidoktansinil", "Seongtanjeol"}

\* GetHolidaySubstituteType with 'full' as the default of the names that
\* match no group
GetHolidaySubstituteTypeDefaultFull(holidayName) ==
    IF \E h \in group1Holidays : Includes(holidayName, h) THEN "full"
    ELSE IF \E h \in group2Holidays : Includes(holidayName, h) THEN "sunday_only"
    ELSE IF \E h \in group3Holidays : Includes(holidayName, h) THEN "none"
    ELSE "full"

GetHolidaySubstituteType(holidayName) ==
    IF \E h \in group1Holidays : Includes(holidayName, h) THEN "full"
    ELSE IF \E h \in group2Holidays : Includes(holidayName, h) THEN "sunday_only"
    ELSE IF \E h \in group3Holidays : Includes(holidayName, h) THEN "none"
    ELSE "none"

-----------------------------------------------------------------------------
(* The substitute-holiday rule engine *)

\* new Date(holiday.date): an entry's date string is modelled by the day
\* it parses to
HolidayDate(holiday) == holiday.date

\* IsDateHoliday without the check of the lunar holidays
IsDateHolidayOfSourceOnly(date, holidayList) ==
    \E i \in 1..Len(holidayList) :
        /\ HolidayDate(holidayList[i]) = date
        /\ ~Includes(holidayList[i].name, "Jeheonjeol")

\* IsDateHoliday counting a day the converter fails on as a holiday
IsDateHolidayWhenUnconvertible(date, holidayList) ==
    \/ \E i \in 1..Len(holidayList) :
          /\ HolidayDate(holidayList[i]) = date
          /\ ~Includes(holidayList[i].name, "Jeheonjeol")
    \/ GetLunarHolidayInfoOfDate(date).name # <<>>
    \/ ~ToLunarOfDate(date).ok

IsDateHoliday(date, holidayList) ==
    \/ \E i \in 1..Len(holidayList) :
          /\ HolidayDate(holidayList[i]) = date
          /\ ~Includes(holidayList[i].name, "Jeheonjeol")
    \/ GetLunarHolidayInfoOfDate(date).name # <<>>

\* The while (true) walk, followed for MaxWalk days: -1 when it has not ended.
RECURSIVE WalkToWorkday(_, _, _)
WalkToWorkday(nextDay, holidayList, fuel) ==
    IF fuel = 0 THEN -1
    ELSE IF GetDay(nextDay) = 0 \/ GetDay(nextDay) = 6
         THEN WalkToWorkday(nextDay + 1, holidayList, fuel - 1)
    ELSE IF ~IsDateHoliday(nextDay, holidayList) THEN nextDay
    ELSE WalkToWorkday(nextDay + 1, holidayList, fuel - 1)

FindNextWorkday(fromDate, holidayList) ==
    WalkToWorkday(fromDate + 1, holidayList, MaxWalk)

\* the entries of holidayList on originalDate that the engine keeps
RegularOnDate(originalDate, holidayList) ==
    SelectSeq(holidayList, LAMBDA holiday :
        /\ HolidayDate(holiday) = originalDate
        /\ ~Includes(holiday.name, "Jeheonjeol"))

\* { name, type: getHolidaySubstituteType(name) }
Tagged(holiday) ==
    [name |-> holiday.name, type |-> GetHolidaySubstituteType(holiday.name)]

TagAll(regular) == [i \in 1..Len(regular) |-> Tagged(regular[i])]

WithLunarOnDate(tagged, lunarInfo) ==
    IF lunarInfo.name # <<>> THEN Append(tagged, Tagged(lunarInfo)) ELSE tagged

\* the holidays collected at originalDate, in order of collection
HolidaysOnDate(originalDate, holidayList) ==
    WithLunarOnDate(TagAll(RegularOnDate(originalDate, holidayList)),
                    GetLunarHolidayInfoOfDate(originalDate))

\* ShouldCreateSubstitute in which any overlap makes a holiday of group 2
\* require substitution
ShouldCreateSubstituteOnAnyOverlap(originalDate, holidaysOnDate) ==
    LET originalDayOfWeek == GetDay(originalDate)
    IN  \E i \in 1..Len(holidaysOnDate) :
            LET h == holidaysOnDate[i]
            IN  IF h.type = "none" THEN FALSE
                ELSE IF h.type = "full"
                     THEN \/ originalDayOfWeek = 0
                          \/ originalDayOfWeek = 6
                          \/ Len(holidaysOnDate) > 1
                ELSE IF h.type = "sunday_only"
                     THEN IF originalDayOfWeek = 0 THEN TRUE
                          ELSE Len(holidaysOnDate) > 1
                ELSE FALSE

\* ShouldCreateSubstitute with Saturday left out of the rule of group 1
ShouldCreateSubstituteNotOnSaturday(originalDate, holidaysOnDate) ==
    LET originalDayOfWeek == GetDay(originalDate)
        hasNonLunarHoliday ==
            \E j \in 1..Len(holidaysOnDate) :
                /\ ~Includes(holidaysOnDate[j].name, "Seollal")
                /\ ~Includes(holidaysOnDate[j].name, "Chuseok")
    IN  \E i \in 1..Len(holidaysOnDate) :
            LET h == holidaysOnDate[i]
            IN  IF h.type = "none" THEN FALSE
                ELSE IF h.type = "full"
                     THEN \/ originalDayOfWeek = 0
                          \/ Len(holidaysOnDate) > 1
                ELSE IF h.type = "sunday_only"
                     THEN IF originalDayOfWeek = 0 THEN TRUE
                          ELSE IF Len(holidaysOnDate) > 1
                               THEN hasNonLunarHoliday
                          ELSE FALSE
                ELSE FALSE

ShouldCreateSubstitute(originalDate, holidaysOnDate) ==
    LET originalDayOfWeek == GetDay(originalDate)
        hasNonLunarHoliday ==
            \E j \in 1..Len(holidaysOnDate) :
                /\ ~Includes(holidaysOnDate[j].name, "Seollal")
                /\ ~Includes(holidaysOnDate[j].name, "Chuseok")
    IN  \E i \in 1..Len(holidaysOnDate) :
            LET h == holidaysOnDate[i]
            IN  IF h.type = "none" THEN FALSE
                ELSE IF h.type = "full"
                     THEN \/ originalDayOfWeek = 0
                          \/ originalDayOfWeek = 6
                          \/ Len(holidaysOnDate) > 1
                ELSE IF h.type = "sunday_only"
                     THEN IF originalDayOfWeek = 0 THEN TRUE
                          ELSE IF Len(holidaysOnDate) > 1
                               THEN hasNonLunarHoliday
                          ELSE FALSE
                ELSE FALSE

\* nextWorkday.toDateString() === targetDate.toDateString()
IsSubstituteOn(nextWorkday, targetDate) ==
    IF nextWorkday = -1 THEN "diverges"
    ELSE IF nextWorkday = targetDate THEN "yes" ELSE "no"

CheckHolidaysOnDate(holidaysOnDate, originalDate, targetDate, holidayList) ==
    IF Len(holidaysOnDate) = 0 THEN "no"
    ELSE IF ~ShouldCreateSubstitute(originalDate, holidaysOnDate) THEN "no"
    ELSE IsSubstituteOn(FindNextWorkday(originalDate, holidayList), targetDate)

\* isSubstitute: "yes", "no", or "diverges" when the next-workday walk does
\* not end
CheckForSubstituteHoliday(originalDate, targetDate, holidayList) ==
    CheckHolidaysOnDate(HolidaysOnDate(originalDate, holidayList),
                        originalDate, targetDate, holidayList)

\* the same with a lookback of 5 days
SubstituteOriginsOfFiveDays(targetDate, holidayList) ==
    {daysBack \in 1..5 :
        CheckForSubstituteHoliday(targetDate - daysBack, targetDate,
                                  holidayList) # "no"}

\* the days back whose check does not answer "no"
SubstituteOrigins(targetDate, holidayList) ==
    {daysBack \in 1..7 :
        CheckForSubstituteHoliday(targetDate - daysBack, targetDate,
                                  holidayList) # "no"}

\* the loop over daysBack ends at the first of them
LoopOutcome(origins, targetDate, holidayList) ==
    IF origins = {} THEN "no"
    ELSE CheckForSubstituteHoliday(
             targetDate - (CHOOSE k \in origins : \A j \in origins : k <= j),
             targetDate, holidayList)

SubstituteInfoOf(outcome) ==
    IF outcome = "yes" THEN Holiday(Daechegonghyuil, "substitute")
    ELSE IF outcome = "diverges"
         THEN [name |-> <<>>, type |-> "", error |-> "NoReturn"]
    ELSE NoHoliday

SubstituteOnDate(targetDate, holidayList) ==
    IF GetDay(targetDate) < 1 \/ GetDay(targetDate) > 5 THEN NoHoliday
    ELSE IF IsDateHoliday(targetDate, holidayList) THEN NoHoliday
    ELSE SubstituteInfoOf(
             LoopOutcome(SubstituteOrigins(targetDate, holidayList),
                         targetDate, holidayList))

GetSubstituteHolidayInfo(year, month, day, holidayList) ==
    SubstituteOnDate(NewDate(year, month - 1, day), holidayList)

-----------------------------------------------------------------------------
(* The aggregator: getAllHolidayInfo, given the year's (cached) list *)

\* Set.add on a Set kept in insertion order
SetAdd(uniqueHolidays, name) ==
    IF \E i \in 1..Len(uniqueHolidays) : uniqueHolidays[i] = name
    THEN uniqueHolidays
    ELSE Append(uniqueHolidays, name)

\* NinthCheckOf with the try/catch around the conversion left out
NinthCheckUncaught(lunarDate) ==
    IF ~lunarDate.ok THEN [skip |-> FALSE, error |-> "ConversionError"]
    ELSE [skip  |-> lunarDate.month = 9 /\ lunarDate.day \in {14, 15, 16},
          error |-> ""]

\* The re-check of a Chuseok entry on its conversion: "skip" drops the
\* entry.  The conversion is inside try/catch: a failure keeps the entry.
NinthCheckOf(lunarDate) ==
    IF ~lunarDate.ok THEN [skip |-> FALSE, error |-> ""]
    ELSE [skip  |-> lunarDate.month = 9 /\ lunarDate.day \in {14, 15, 16},
          error |-> ""]

LunarNinthCheck(year, month, day) == NinthCheckOf(ToLunar(year, month, day))

\* EntryType with the test of the substitute flag inverted
EntryTypeFlagInverted(holiday) ==
    IF ~holiday.substitute THEN "substitute"
    ELSE IF Includes(holiday.name, "Seollal") \/ Includes(holiday.name, "Sinjeong")
         THEN "lunar_new_year"
    ELSE IF Includes(holiday.name, "Chuseok") THEN "chuseok"
    ELSE "normal"

\* primaryHolidayType of the first entry kept
EntryType(holiday) ==
    IF holiday.substitute THEN "substitute"
    ELSE IF Includes(holiday.name, "Seollal") \/ Includes(holiday.name, "Sinjeong")
         THEN "lunar_new_year"
    ELSE IF Includes(holiday.name, "Chuseok") THEN "chuseok"
    ELSE "normal"

\* ScanHoliday with the Constitution Day filter left out
ScanHolidayUnfiltered(acc, holiday, year, month, day) ==
    IF acc.error # "" THEN acc
    ELSE IF HolidayDate(holiday) # NewDate(year, month - 1, day) THEN acc
    ELSE IF /\ Includes(holiday.name, "Chuseok")
            /\ LunarNinthCheck(year, month, day).error # ""
         THEN [acc EXCEPT !.error = LunarNinthCheck(year, month, day).error]
    ELSE IF /\ Includes(holiday.name, "Chuseok")
            /\ LunarNinthCheck(year, month, day).skip
         THEN acc
    ELSE [names |-> SetAdd(acc.names, holiday.name),
          type  |-> IF acc.type # "" THEN acc.type ELSE EntryType(holiday),
          error |-> ""]

\* one iteration of the loop over holidayList
ScanHoliday(acc, holiday, year, month, day) ==
    IF acc.error # "" THEN acc
    ELSE IF HolidayDate(holiday) # NewDate(year, month - 1, day) THEN acc
    ELSE IF Includes(holiday.name, "Jeheonjeol") THEN acc
    ELSE IF /\ Includes(holiday.name, "Chuseok")
            /\ LunarNinthCheck(year, month, day).error # ""
         THEN [acc EXCEPT !.error = LunarNinthCheck(year, month, day).error]
    ELSE IF /\ Includes(holiday.name, "Chuseok")
            /\ LunarNinthCheck(year, month, day).skip
         THEN acc
    ELSE [names |-> SetAdd(acc.names, holiday.name),
          type  |-> IF acc.type # "" THEN acc.type ELSE EntryType(holiday),
          error |-> ""]

\* uniqueHolidays and primaryHolidayType after i iterations of the loop
RECURSIVE Scan(_, _, _, _, _)
Scan(holidayList, i, year, month, day) ==
    IF i = 0 THEN [names |-> <<>>, type |-> "", error |-> ""]
    ELSE ScanHoliday(Scan(holidayList, i - 1, year, month, day),
                     holidayList[i], year, month, day)

RegularHolidays(holidayList, year, month, day) ==
    Scan(holidayList, Len(holidayList), year, month, day)

\* WithLunarHoliday giving the type "substitute" to a day whose only
\* holiday is the lunar span
WithLunarHolidayAsSubstitute(acc, lunarHolidayInfo) ==
    LET hasSimilarHoliday ==
            \E i \in 1..Len(acc.names) :
                \/ /\ Includes(acc.names[i], "Chuseok")
                   /\ Includes(lunarHolidayInfo.name, "Chuseok")
                \/ /\ Includes(acc.names[i], "Seollal")
                   /\ Includes(lunarHolidayInfo.name, "Seollal")
    IN  IF acc.error # "" THEN acc
        ELSE IF lunarHolidayInfo.error # ""
             THEN [acc EXCEPT !.error = lunarHolidayInfo.error]
        ELSE IF lunarHolidayInfo.name # <<>> /\ ~hasSimilarHoliday
             THEN [acc EXCEPT !.names = SetAdd(acc.names, lunarHolidayInfo.name),
                              !.type  = IF acc.type # "" THEN acc.type
                                        ELSE "substitute"]
        ELSE acc

\* WithLunarHoliday without the same-family check: only the Set removes
\* duplicates
WithLunarHolidayUnchecked(acc, lunarHolidayInfo) ==
    IF acc.error # "" THEN acc
    ELSE IF lunarHolidayInfo.error # ""
         THEN [acc EXCEPT !.error = lunarHolidayInfo.error]
    ELSE IF lunarHolidayInfo.name # <<>>
         THEN [acc EXCEPT !.names = SetAdd(acc.names, lunarHolidayInfo.name),
                          !.type  = IF acc.type # "" THEN acc.type
                                    ELSE lunarHolidayInfo.type]
    ELSE acc

\* WithLunarHoliday adding the lunar name without setting the type
WithLunarHolidayWithoutType(acc, lunarHolidayInfo) ==
    LET hasSimilarHoliday ==
            \E i \in 1..Len(acc.names) :
                \/ /\ Includes(acc.names[i], "Chuseok")
                   /\ Includes(lunarHolidayInfo.name, "Chuseok")
                \/ /\ Includes(acc.names[i], "Seollal")
                   /\ Includes(lunarHolidayInfo.name, "Seollal")
    IN  IF acc.error # "" THEN acc
        ELSE IF lunarHolidayInfo.error # ""
             THEN [acc EXCEPT !.error = lunarHolidayInfo.error]
        ELSE IF lunarHolidayInfo.name # <<>> /\ ~hasSimilarHoliday
             THEN [acc EXCEPT !.names = SetAdd(acc.names, lunarHolidayInfo.name)]
        ELSE acc

\* the lunar span name is added unless a same-family name is present
WithLunarHoliday(acc, lunarHolidayInfo) ==
    LET hasSimilarHoliday ==
            \E i \in 1..Len(acc.names) :
                \/ /\ Includes(acc.names[i], "Chuseok")
                   /\ Includes(lunarHolidayInfo.name, "Chuseok")
                \/ /\ Includes(acc.names[i], "Seollal")
                   /\ Includes(lunarHolidayInfo.name, "Seollal")
    IN  IF acc.error # "" THEN acc
        ELSE IF lunarHolidayInfo.error # ""
             THEN [acc EXCEPT !.error = lunarHolidayInfo.error]
        ELSE IF lunarHolidayInfo.name # <<>> /\ ~hasSimilarHoliday
             THEN [acc EXCEPT !.names = SetAdd(acc.names, lunarHolidayInfo.name),
                              !.type  = IF acc.type # "" THEN acc.type
                                        ELSE lunarHolidayInfo.type]
        ELSE acc

\* { name: allHolidays[0] || '', names: allHolidays, type }, or the
\* exception that left the function
Outcome(names, type, error) ==
    [name  |-> IF error = "" /\ Len(names) > 0 THEN names[1] ELSE <<>>,
     names |-> IF error = "" THEN names ELSE <<>>,
     type  |-> IF error = "" THEN type ELSE "",
     error |-> error]

\* WithSubstitute adding the engine's name without setting the type
WithSubstituteKeepingType(acc, substituteInfo) ==
    IF acc.error # "" THEN Outcome(<<>>, "", acc.error)
    ELSE IF Len(acc.names) # 0 THEN Outcome(acc.names, acc.type, "")
    ELSE IF substituteInfo.error # "" THEN Outcome(<<>>, "", substituteInfo.error)
    ELSE IF substituteInfo.name # <<>>
         THEN Outcome(<<substituteInfo.name>>, acc.type, "")
    ELSE Outcome(<<>>, "", "")

\* the substitute check runs only when uniqueHolidays is empty
WithSubstitute(acc, substituteInfo) ==
    IF acc.error # "" THEN Outcome(<<>>, "", acc.error)
    ELSE IF Len(acc.names) # 0 THEN Outcome(acc.names, acc.type, "")
    ELSE IF substituteInfo.error # "" THEN Outcome(<<>>, "", substituteInfo.error)
    ELSE IF substituteInfo.name # <<>>
         THEN Outcome(<<substituteInfo.name>>, substituteInfo.type, "")
    ELSE Outcome(<<>>, "", "")

GetAllHolidayInfo(holidayList, year, month, day) ==
    WithSubstitute(
        WithLunarHoliday(RegularHolidays(holidayList, year, month, day),
                         GetLunarHolidayInfo(year, month, day)),
        GetSubstituteHolidayInfo(year, month, day, holidayList))

-----------------------------------------------------------------------------
(* The lunar marker: getLunarDate *)

\* `eum ${lunarMonth}.${lunarDay}`  ("eum" = lunar)
MarkerText(lunarMonth, lunarDay) ==
    "eum " \o ToString(lunarMonth) \o "." \o ToString(lunarDay)

\* the inner try/catch: a failing next-day conversion is "not the last day"
NextDayIsFirst(year, month, day) ==
    /\ ToLunarOfDate(NewDate(year, month - 1, day + 1)).ok
    /\ ToLunarOfDate(NewDate(year, month - 1, day + 1)).day = 1

\* MarkerOf without the last-day-of-the-month rule
MarkerOfFirstAndFifteenth(lunarDate, nextDayIsFirst) ==
    IF ~lunarDate.ok THEN [text |-> "", error |-> ""]
    ELSE IF lunarDate.day = 1 \/ lunarDate.day = 15
         THEN [text  |-> MarkerText(lunarDate.month, lunarDate.day),
               error |-> ""]
    ELSE [text |-> "", error |-> ""]

\* the outer try/catch turns any exception into the empty marker
MarkerOf(lunarDate, nextDayIsFirst) ==
    IF ~lunarDate.ok THEN [text |-> "", error |-> ""]
    ELSE IF lunarDate.day = 1 \/ lunarDate.day = 15 \/ nextDayIsFirst
         THEN [text  |-> MarkerText(lunarDate.month, lunarDate.day),
               error |-> ""]
    ELSE [text |-> "", error |-> ""]

ComputeLunarDate(year, month, day) ==
    MarkerOf(ToLunar(year, month, day), NextDayIsFirst(year, month, day))

-----------------------------------------------------------------------------
(* The calls as the component makes them, with its caches *)

\* holidays.getHolidays(year) of date-holidays, when it returns
GetHolidays(year) == holidaySource[year]

\* CallGetAllHolidayInfo reading whatever list is cached, of any year
CallGetAllHolidayInfoAnyYear(hc, fc, year, month, day, sourceThrows) ==
    LET cached == DOMAIN hc # {}
        throws == ~cached /\ sourceThrows
        holidayList == IF cached THEN hc[CHOOSE y \in DOMAIN hc : TRUE]
                       ELSE GetHolidays(year)
    IN  [holidayCache |-> IF cached \/ throws THEN hc
                          ELSE hc @@ (year :> holidayList),
         fetchCount   |-> IF cached THEN fc ELSE [fc EXCEPT ![year] = @ + 1],
         info         |-> IF throws THEN Outcome(<<>>, "", "SourceFetchError")
                          ELSE GetAllHolidayInfo(holidayList, year, month, day),
         asked        |-> (IF cached THEN {} ELSE {"source"})
                              \cup (IF throws THEN {} ELSE {"converter"})]

\* getAllHolidayInfo(year, month, day) on caches hc (holidayCache) and
\* fc (the count of fetches): the caches after the call, what it returned
\* or threw, and the providers it asked.  sourceThrows: the holiday source
\* fails if it is asked.
CallGetAllHolidayInfo(hc, fc, year, month, day, sourceThrows) ==
    LET cached == year \in DOMAIN hc
        throws == ~cached /\ sourceThrows
        holidayList == IF cached THEN hc[year] ELSE GetHolidays(year)
    IN  [holidayCache |-> IF cached \/ throws THEN hc
                          ELSE hc @@ (year :> holidayList),
         fetchCount   |-> IF cached THEN fc ELSE [fc EXCEPT ![year] = @ + 1],
         info         |-> IF throws THEN Outcome(<<>>, "", "SourceFetchError")
                          ELSE GetAllHolidayInfo(holidayList, year, month, day),
         asked        |-> (IF cached THEN {} ELSE {"source"})
                              \cup (IF throws THEN {} ELSE {"converter"})]

\* lunarCache.current.set(cacheKey, result); return result
StoreLunarDate(lc, cacheKey, computed) ==
    [lunarCache |-> IF computed.error = "" THEN lc @@ (cacheKey :> computed.text)
                    ELSE lc,
     text       |-> computed.text,
     error      |-> computed.error,
     asked      |-> {"converter"}]

\* getLunarDate(year, month, day) on cache lc (lunarCache)
CallGetLunarDate(lc, year, month, day) ==
    IF <<year, month, day>> \in DOMAIN lc
    THEN [lunarCache |-> lc, text |-> lc[<<year, month, day>>],
          error |-> "", asked |-> {}]
    ELSE StoreLunarDate(lc, <<year, month, day>>,
                        ComputeLunarDate(year, month, day))

NoCall == [op |-> "", year |-> 0, month |-> 0, day |-> 0, error |-> "",
           name |-> <<>>, names |-> <<>>, type |-> "", text |-> "",
           asked |-> {}, weeks |-> <<>>,
           origin |-> 0, holidaysOnDate |-> <<>>, required |-> FALSE,
           nextWorkday |-> 0, isSubstitute |-> ""]

-----------------------------------------------------------------------------
(* The month grid: generateCalendarDates *)

\* new Date(): the day the page is shown
Today == DaysFromCivil(2025, 12, 30)

OtherMonthCell(day) ==
    [date |-> day, isCurrentMonth |-> FALSE, isToday |-> FALSE,
     isWeekend |-> FALSE, isSunday |-> FALSE, lunarInfo |-> "",
     holiday |-> <<>>, holidays |-> <<>>, holidayType |-> ""]

CurrentMonthCell(day, dateOfDay, lunarInfo, holidayInfo) ==
    [date |-> day, isCurrentMonth |-> TRUE,
     isToday   |-> dateOfDay = Today,
     isWeekend |-> GetDay(dateOfDay) = 0 \/ GetDay(dateOfDay) = 6,
     isSunday  |-> GetDay(dateOfDay) = 0,
     lunarInfo |-> lunarInfo,
     holiday   |-> holidayInfo.name,
     holidays  |-> holidayInfo.names,
     holidayType |-> holidayInfo.type]

\* One iteration of the loop over the month's days: st carries the two
\* caches, the cells pushed so far and the exception that ended the loop.
PushDay(st, day, dateOfDay, lunar, holiday) ==
    [lunarCache   |-> lunar.lunarCache,
     holidayCache |-> holiday.holidayCache,
     fetchCount   |-> holiday.fetchCount,
     dates        |-> IF holiday.info.error = ""
                      THEN Append(st.dates,
                                  CurrentMonthCell(day, dateOfDay, lunar.text,
                                                   holiday.info))
                      ELSE st.dates,
     error        |-> holiday.info.error]

RECURSIVE CurrentMonthDays(_, _, _, _, _, _)
CurrentMonthDays(st, year, month, day, daysInMonth, sourceThrows) ==
    IF day > daysInMonth \/ st.error # "" THEN st
    ELSE CurrentMonthDays(
             PushDay(st, day, NewDate(year, month, day),
                     CallGetLunarDate(st.lunarCache, year, month + 1, day),
                     CallGetAllHolidayInfo(st.holidayCache, st.fetchCount,
                                           year, month + 1, day, sourceThrows)),
             year, month, day + 1, daysInMonth, sourceThrows)

\* the previous month's trailing days
TrailingDays(firstDay, prevMonthDays) ==
    [k \in 1..firstDay |-> OtherMonthCell(prevMonthDays - (firstDay - k))]

\* the next month's leading days
WithLeadingDays(dates) ==
    dates \o [k \in 1..(((Len(dates) + 6) \div 7) * 7 - Len(dates)) |->
                 OtherMonthCell(k)]

GroupIntoWeeks(dates) ==
    [w \in 1..((Len(dates) + 6) \div 7) |->
        SubSeq(dates, 7 * (w - 1) + 1, 7 * w)]

GridOutcome(st) ==
    [lunarCache |-> st.lunarCache, holidayCache |-> st.holidayCache,
     fetchCount |-> st.fetchCount, error |-> st.error,
     weeks |-> IF st.error = "" THEN GroupIntoWeeks(WithLeadingDays(st.dates))
               ELSE <<>>]

\* generateCalendarDates(date) when the month is not in calendarCache
BuildCalendarDates(lc, hc, fc, year, month, sourceThrows) ==
    GridOutcome(
        CurrentMonthDays(
            [lunarCache |-> lc, holidayCache |-> hc, fetchCount |-> fc,
             dates |-> TrailingDays(GetDay(NewDate(year, month, 1)),
                                    CivilFromDays(NewDate(year, month - 1, 0)).date),
             error |-> ""],
            year, month, 1, GetDaysInMonth(year, month), sourceThrows))

-----------------------------------------------------------------------------
(* The mobile view of Calendar: a window of 49 months that slides.  An entry
   of endlessCalendarData is modelled by its month, [year, month (0-based)];
   its grid (data) and its key follow from the month. *)

WINDOW_SIZE == 49
CENTER_INDEX == 24
\* const buffer = 8
buffer == 8

\* new Date(year, monthIndex, 1) as getFullYear() and getMonth() read it
MonthDate(year, monthIndex) ==
    [year |-> year + (monthIndex \div 12), month |-> monthIndex % 12]

\* baseDate.current: new Date() when the component was mounted
BaseDate == [year  |-> CivilFromDays(Today).year,
             month |-> CivilFromDays(Today).month - 1]

\* the loop for (i = 0; i < WINDOW_SIZE; i++) with
\* offset = newOffset + (i - CENTER_INDEX)
WindowMonths(newOffset) ==
    [k \in 1..WINDOW_SIZE |->
        MonthDate(BaseDate.year,
                  BaseDate.month + newOffset + ((k - 1) - CENTER_INDEX))]

NoFrame == [stage |-> 0, currentScroll |-> 0, towardsTop |-> FALSE]

\* Calendar right after it is mounted
CalendarMounted(onMobile) ==
    /\ isMobile = onMobile
    /\ endlessCalendarData = <<>>
    /\ windowOffsetRef = 0
    /\ isUpdatingData = FALSE
    /\ scrollTop = 0
    /\ frames = NoFrame

\* the guards of updateSlidingWindowSmoothly and of the observer's
\* callback, without the test of isUpdatingData
MayUpdateWhileUpdating(updating, data) == Len(data) # 0

\* if (isUpdatingData.current) return; and
\* if (!container || isUpdatingData.current || length === 0) return
MayUpdate(updating, data) == ~updating /\ Len(data) # 0

\* the offset the window moves to when the view shows the month of index
\* currentWindowIndex of the window
NewOffset(offset, currentWindowIndex) ==
    IF currentWindowIndex < buffer THEN offset - buffer
    ELSE IF currentWindowIndex >= WINDOW_SIZE - buffer THEN offset + buffer
    ELSE offset

\* the browser keeps scrollTop inside the view's content
ClampScroll(position) ==
    IF position < 0 THEN 0
    ELSE IF position > WINDOW_SIZE - 1 THEN WINDOW_SIZE - 1
    ELSE position

\* the effect that fills the window when it is empty
InitializeWindow ==
    /\ isMobile
    /\ Len(endlessCalendarData) = 0
    /\ endlessCalendarData' = WindowMonths(0)
    /\ UNCHANGED <<isMobile, windowOffsetRef, isUpdatingData, scrollTop,
                   frames, engine, app>>

\* the user scrolls the mobile view (handleMobileScroll only records it)
Scroll(position) ==
    /\ isMobile
    /\ Len(endlessCalendarData) # 0
    /\ scrollTop # position
    /\ scrollTop' = position
    /\ UNCHANGED <<isMobile, endlessCalendarData, windowOffsetRef,
                   isUpdatingData, frames, engine, app>>

\* a sentinel comes into view: the observer's callback calls
\* updateSlidingWindowSmoothly, which shifts the window when the view is
\* within the buffer of an end of it; the state update is applied by the
\* render that follows
UpdateSlidingWindowSmoothly ==
    /\ isMobile
    /\ MayUpdate(isUpdatingData, endlessCalendarData)
    /\ \E newOffset \in {NewOffset(windowOffsetRef, scrollTop)} :
           /\ newOffset # windowOffsetRef
           /\ newOffset >= -(buffer * MaxShifts)
           /\ newOffset <= buffer * MaxShifts
           /\ isUpdatingData' = TRUE
           /\ windowOffsetRef' = newOffset
           /\ endlessCalendarData' = WindowMonths(newOffset)
           /\ frames' = [stage |-> 1, currentScroll |-> scrollTop,
                         towardsTop |-> scrollTop < buffer]
    /\ UNCHANGED <<isMobile, scrollTop, engine, app>>

\* the requestAnimationFrame callbacks: the first adjusts the scroll
\* position, the second, a frame later, ends the update
AnimationFrame ==
    /\ frames.stage # 0
    /\ IF frames.stage = 1
       THEN /\ scrollTop' = ClampScroll(IF frames.towardsTop
                                        THEN frames.currentScroll + buffer
                                        ELSE frames.currentScroll - buffer)
            /\ frames' = [frames EXCEPT !.stage = 2]
            /\ UNCHANGED isUpdatingData
       ELSE /\ isUpdatingData' = FALSE
            /\ frames' = NoFrame
            /\ UNCHANGED scrollTop
    /\ UNCHANGED <<isMobile, endlessCalendarData, windowOffsetRef, engine, app>>

-----------------------------------------------------------------------------
(* The page: App (src/src/App.tsx) and the keys of Calendar *)

\* the delay of the URL update, 300 ms, in clock ticks of 100 ms
UrlUpdateDelay == 3

\* window.location.search without, and with, the parameters year and month
NoParams == [set |-> FALSE, year |-> 0, month |-> 0]
Params(year, month) == [set |-> TRUE, year |-> year, month |-> month]

\* new Date(year, monthIndex [, 1]) as getFullYear() and getMonth() read
\* it: a year 0..99 means 1900 + year, the month index rolls over
MonthOf(year, monthIndex) ==
    [year  |-> (IF year \in 0..99 THEN 1900 + year ELSE year)
                   + (monthIndex \div 12),
     month |-> monthIndex % 12]

\* useState(() => ...): the initial currentDate, read from the URL, or
\* new Date()
InitialDate(u) ==
    IF u.set /\ u.month - 1 >= 0 /\ u.month - 1 <= 11
    THEN MonthOf(u.year, u.month - 1)
    ELSE [year |-> CivilFromDays(Today).year,
          month |-> CivilFromDays(Today).month - 1]

\* setTimeout(callback, 300) called while currentDate is "date": the
\* callback keeps that date
Timeout(handle, date) ==
    [handle |-> handle, year |-> date.year, month |-> date.month,
     elapsed |-> 0]

\* clearTimeout without effect
ClearTimeoutIgnored(pending, handle) == pending

\* clearTimeout(handle)
ClearTimeout(pending, handle) == {t \in pending : t.handle # handle}

\* What happened to the changes of currentDate, each named by the handle
\* of the timeout set for it: "early" are those replaced less than 300 ms
\* after they were set, "written" those whose callback rewrote the URL,
\* "refused" those whose callback caught an exception of replaceState.
NoHistory == [early |-> {}, written |-> {}, refused |-> {}]

\* the pending timeouts that are not yet due
EarlyIn(pending) == {t.handle : t \in {e \in pending : e.elapsed < UrlUpdateDelay}}

\* the page right after it is loaded at URL u: App is mounted and its
\* effect has run for the initial currentDate
AppLoaded(u) ==
    /\ currentDate = InitialDate(u)
    /\ url = u
    /\ urlUpdateTimer = 1
    /\ timers = {Timeout(1, InitialDate(u))}
    /\ nchanges = 1
    /\ history = NoHistory

\* window.location.reload(): the page is loaded again at its URL
Reload ==
    /\ currentDate' = InitialDate(url)
    /\ url' = url
    /\ urlUpdateTimer' = 1
    /\ timers' = {Timeout(1, InitialDate(url))}
    /\ nchanges' = 1
    /\ history' = NoHistory
    /\ isMobile' = isMobile
    /\ endlessCalendarData' = <<>>
    /\ windowOffsetRef' = 0
    /\ isUpdatingData' = FALSE
    /\ scrollTop' = 0
    /\ frames' = NoFrame

\* setCurrentDate(date) and the effect of the render that follows: the
\* cleanup and the effect clear the timer of the ref, and a new timer is set
SetCurrentDate(date) ==
    /\ nchanges < MaxChanges
    /\ currentDate' = date
    /\ nchanges' = nchanges + 1
    /\ timers' = ClearTimeout(timers, urlUpdateTimer)
                     \cup {Timeout(nchanges + 1, date)}
    /\ urlUpdateTimer' = nchanges + 1
    /\ history' = [history EXCEPT !.early = @ \cup EarlyIn(timers)]
    /\ UNCHANGED <<url, engine, mobile>>

\* the remainder of JavaScript: it has the sign of the dividend
Remainder(a, n) == IF a >= 0 THEN a % n ELSE 0 - ((0 - a) % n)

\* the zodiac names of getZodiacInfo, romanised, the rat first
zodiacAnimals ==
    <<"jwitti", "sotti", "beomtti", "tokkitti", "yongtti", "baemtti",
      "maltti", "yangtti", "wonsungitti", "daktti", "gaetti", "dwaejitti">>

\* what an index outside an array reads
Undefined == "undefined"

\* getZodiacInfo: zodiacAnimals[(year - baseYear) % 12]
GetZodiacInfo(year) ==
    LET baseYear == 1900
        zodiacIndex == Remainder(year - baseYear, 12)
    IN  IF zodiacIndex \in 0..11 THEN zodiacAnimals[zodiacIndex + 1]
        ELSE Undefined

\* const zodiacInfo = useMemo(() => getZodiacInfo(year), [year])
zodiacInfo == GetZodiacInfo(currentDate.year)

\* handleKeyNavigation: the arrow keys
KeyNavigation(key) ==
    \/ /\ key = "ArrowLeft"
       /\ SetCurrentDate(MonthOf(currentDate.year, currentDate.month - 1))
    \/ /\ key = "ArrowRight"
       /\ SetCurrentDate(MonthOf(currentDate.year, currentDate.month + 1))
    \/ /\ key = "ArrowUp"
       /\ SetCurrentDate(MonthOf(currentDate.year - 1, currentDate.month))
    \/ /\ key = "ArrowDown"
       /\ SetCurrentDate(MonthOf(currentDate.year + 1, currentDate.month))

\* 100 ms pass
Tick ==
    /\ \E t \in timers : t.elapsed < UrlUpdateDelay
    /\ timers' = {[t EXCEPT !.elapsed = IF @ < UrlUpdateDelay THEN @ + 1 ELSE @] :
                     t \in timers}
    /\ UNCHANGED <<currentDate, url, urlUpdateTimer, nchanges, history,
                   engine, mobile>>

\* a timeout is due and its callback runs: the URL gets the year and the
\* 1-based month of the callback's date, unless replaceState throws
\* ("refused"), which the callback catches
RunTimeout(t, refused) ==
    /\ t \in timers
    /\ t.elapsed >= UrlUpdateDelay
    /\ timers' = timers \ {t}
    /\ IF refused
       THEN /\ url' = url
            /\ history' = [history EXCEPT !.refused = @ \cup {t.handle}]
       ELSE /\ url' = Params(t.year, t.month + 1)
            /\ history' = [history EXCEPT !.written = @ \cup {t.handle}]
    /\ UNCHANGED <<currentDate, urlUpdateTimer, nchanges, engine, mobile>>

\* the browser runs a timeout that is due
TimeoutRuns == \E t \in timers, refused \in BOOLEAN : RunTimeout(t, refused)

-----------------------------------------------------------------------------
(* The environment: the converter's table and the holiday source *)

Years == {2025, 2026}

Sat27 == DaysFromCivil(2025, 12, 27)
Sun28 == DaysFromCivil(2025, 12, 28)
Tue30 == DaysFromCivil(2025, 12, 30)
Wed31 == DaysFromCivil(2025, 12, 31)
Thu01 == DaysFromCivil(2026, 1, 1)

\* the days the converter's table covers: Sat 2025-12-27 .. Thu 2026-01-01
TableDays == Sat27..Thu01

\* A lunar calendar in which day "anchor" is the lunar date month/day and
\* the days around it follow (months of 29 days); "failing" days throw.
LunarTable(anchor, month, day, failing) ==
    [s \in TableDays |->
        LET n == day + (s - anchor)
        IN  IF s \in failing THEN ConversionFailed
            ELSE IF n < 1 THEN Lunar(IF month = 1 THEN 12 ELSE month - 1, n + 29)
            ELSE IF n > 29 THEN Lunar(IF month = 12 THEN 1 ELSE month + 1, n - 29)
            ELSE Lunar(month, n)]

AnchorDates == {<<1, 1>>, <<8, 15>>, <<9, 15>>}

\* the calendars without a failing day that put the anchor on Wednesday
RegularTables ==
    {LunarTable(Wed31, md[1], md[2], {}) : md \in AnchorDates}

\* every calendar: the anchor on Sunday or Wednesday, at most one day failing
LunarTables ==
    {LunarTable(a, md[1], md[2], f) :
        a \in {Sun28, Wed31}, md \in AnchorDates, f \in {{}, {Tue30}, {Wed31}}}

Entry(date, name, substitute) ==
    [date |-> date, name |-> name, substitute |-> substitute]

\* what the source may list for 2025; the year 2026 has no entry
RawEntries ==
    {Entry(Sat27, Eorininal, FALSE),
     Entry(Sat27, <<"Eorininal", "Daecheil">>, TRUE),
     Entry(Wed31, Eorininal, FALSE),
     Entry(Wed31, Chuseok, FALSE),
     Entry(Wed31, ChuseokYeonhyu, FALSE),
     Entry(Wed31, Jeheonjeol, FALSE)}

\* getHolidays lists the entries in order of date, each entry once
IsSourceList(list) ==
    \A i, j \in 1..Len(list) :
        i < j => list[i] # list[j] /\ list[i].date <= list[j].date

\* the lists of at most MaxEntries entries
SourceLists ==
    {list \in UNION {[1..k -> RawEntries] : k \in 0..MaxEntries} :
        IsSourceList(list)}

ShortLists == {<<>>, <<Entry(Wed31, Chuseok, FALSE)>>}

Source(list) == [y \in Years |-> IF y = 2025 THEN list ELSE <<>>]

\* a source that lists New Year's Day of 2026
NewYearSource ==
    [y \in Years |-> IF y = 2026 THEN <<Entry(Thu01, Sinjeong, FALSE)>>
                     ELSE <<>>]

-----------------------------------------------------------------------------
(* The state machine *)

InitCaches ==
    /\ holidayCache = <<>>
    /\ lunarCache = <<>>
    /\ calendarCache = <<>>
    /\ fetchCount = [y \in Years |-> 0]
    /\ ncalls = 0
    /\ last = NoCall
    /\ AppLoaded(NoParams)
    /\ CalendarMounted(FALSE)

\* Every source list against the regular calendars, every calendar
\* against the short lists, and New Year's Day against the regular
\* calendars.
Init ==
    /\ \/ /\ lunarTable \in RegularTables
          /\ holidaySource \in {Source(list) : list \in SourceLists}
       \/ /\ lunarTable \in LunarTables
          /\ holidaySource \in {Source(list) : list \in ShortLists}
       \/ /\ lunarTable \in RegularTables
          /\ holidaySource = NewYearSource
    /\ InitCaches

\* the dates the host asks about: the table's days and a malformed date
CallDates ==
    {<<CivilFromDays(s).year, CivilFromDays(s).month, CivilFromDays(s).date>> :
        s \in TableDays}
    \cup {<<2025, 12, 32>>}

\* the months the host shows: December 2025 and January 2026 (0-based month)
CallMonths == {<<2025, 11>>, <<2026, 0>>}

\* classify: a call of getAllHolidayInfo(year, month, day)
Classify(year, month, day, sourceThrows) ==
    /\ ncalls < MaxCalls
    /\ sourceThrows => year \notin DOMAIN holidayCache
    /\ \E r \in {CallGetAllHolidayInfo(holidayCache, fetchCount,
                                      year, month, day, sourceThrows)} :
           /\ holidayCache' = r.holidayCache
           /\ fetchCount' = r.fetchCount
           /\ last' = [NoCall EXCEPT !.op = "getAllHolidayInfo",
                          !.year = year, !.month = month, !.day = day,
                          !.error = r.info.error, !.name = r.info.name,
                          !.names = r.info.names, !.type = r.info.type,
                          !.asked = r.asked]
    /\ ncalls' = ncalls + 1
    /\ UNCHANGED <<env, app, mobile, lunarCache, calendarCache>>

\* lunarMarker: a call of getLunarDate(year, month, day)
LunarMarker(year, month, day) ==
    /\ ncalls < MaxCalls
    /\ \E r \in {CallGetLunarDate(lunarCache, year, month, day)} :
           /\ lunarCache' = r.lunarCache
           /\ last' = [NoCall EXCEPT !.op = "getLunarDate",
                          !.year = year, !.month = month, !.day = day,
                          !.error = r.error, !.text = r.text, !.asked = r.asked]
    /\ ncalls' = ncalls + 1
    /\ UNCHANGED <<env, app, mobile, holidayCache, calendarCache, fetchCount>>

\* a render of the month: generateCalendarDates(new Date(year, month))
GenerateCalendarDates(year, month, sourceThrows) ==
    /\ ncalls < MaxCalls
    /\ sourceThrows => /\ year \notin DOMAIN holidayCache
                       /\ <<year, month>> \notin DOMAIN calendarCache
    /\ IF <<year, month>> \in DOMAIN calendarCache
       THEN /\ last' = [NoCall EXCEPT !.op = "generateCalendarDates",
                           !.year = year, !.month = month,
                           !.weeks = calendarCache[<<year, month>>]]
            /\ UNCHANGED <<lunarCache, holidayCache, fetchCount, calendarCache>>
       ELSE \E r \in {BuildCalendarDates(lunarCache, holidayCache, fetchCount,
                                          year, month, sourceThrows)} :
            /\ lunarCache' = r.lunarCache
            /\ holidayCache' = r.holidayCache
            /\ fetchCount' = r.fetchCount
            /\ calendarCache' = IF r.error = ""
                                THEN calendarCache @@ (<<year, month>> :> r.weeks)
                                ELSE calendarCache
            /\ last' = [NoCall EXCEPT !.op = "generateCalendarDates",
                           !.year = year, !.month = month,
                           !.error = r.error, !.weeks = r.weeks]
    /\ ncalls' = ncalls + 1
    /\ UNCHANGED <<env, app, mobile>>

\* handleCacheClear (Ctrl/Cmd + Shift + C): the caches are cleared and the
\* page is reloaded, which starts the component afresh
CacheClear ==
    /\ ncalls > 0
    /\ holidayCache' = <<>>
    /\ lunarCache' = <<>>
    /\ calendarCache' = <<>>
    /\ fetchCount' = [y \in Years |-> 0]
    /\ ncalls' = 0
    /\ last' = NoCall
    /\ Reload
    /\ UNCHANGED env

\* The engine's two queries, called directly
Next ==
    \/ \E c \in CallDates, sourceThrows \in BOOLEAN :
          Classify(c[1], c[2], c[3], sourceThrows)
    \/ \E c \in CallDates : LunarMarker(c[1], c[2], c[3])
    \/ CacheClear

Spec == Init /\ [][Next]_vars

\* The component as the page drives it: renders of a month
NextGrid ==
    \/ \E c \in CallMonths, sourceThrows \in BOOLEAN :
          GenerateCalendarDates(c[1], c[2], sourceThrows)
    \/ CacheClear

SpecGrid == Init /\ [][NextGrid]_vars

-----------------------------------------------------------------------------
(* The rule engine's functions applied on their own, in a week inside one
   year: Fri 2025-10-03 .. Fri 2025-10-10 *)

Fri03 == DaysFromCivil(2025, 10, 3)
Sat04 == DaysFromCivil(2025, 10, 4)
Sun05 == DaysFromCivil(2025, 10, 5)
Mon06 == DaysFromCivil(2025, 10, 6)
Wed08 == DaysFromCivil(2025, 10, 8)
Fri10 == DaysFromCivil(2025, 10, 10)

EngineDays == Fri03..Fri10

\* as LunarTable, over the days of the week of October
EngineTable(anchor, month, day, failing) ==
    [s \in EngineDays |->
        LET n == day + (s - anchor)
        IN  IF s \in failing THEN ConversionFailed
            ELSE IF n < 1 THEN Lunar(IF month = 1 THEN 12 ELSE month - 1, n + 29)
            ELSE IF n > 29 THEN Lunar(IF month = 12 THEN 1 ELSE month + 1, n - 29)
            ELSE Lunar(month, n)]

\* the calendars without a failing day: the anchor on Sunday, Monday or
\* Wednesday
RegularEngineTables ==
    {EngineTable(a, md[1], md[2], {}) :
        a \in {Sun05, Mon06, Wed08}, md \in AnchorDates}

\* the calendars in which the conversion of Sunday fails
FailingEngineTables ==
    {EngineTable(a, md[1], md[2], {Sun05}) :
        a \in {Sun05, Mon06, Wed08}, md \in AnchorDates}

Gaecheonjeol   == <<"Gaecheonjeol">>
Hangeullal     == <<"Hangeullal">>
Seokgatansinil == <<"Seokgatansinil">>

\* what the source may list in the week
EngineEntries ==
    {Entry(Fri03, Gaecheonjeol, FALSE),
     Entry(Sat04, Gaecheonjeol, FALSE),
     Entry(Sat04, Seollal, FALSE),
     Entry(Sun05, Hyeonchungil, FALSE),
     Entry(Sun05, Seokgatansinil, FALSE),
     Entry(Mon06, Chuseok, FALSE),
     Entry(Mon06, Hangeullal, FALSE),
     Entry(Mon06, Seokgatansinil, FALSE),
     Entry(Mon06, Jeheonjeol, FALSE)}

EngineLists ==
    {list \in UNION {[1..k -> EngineEntries] : k \in 0..MaxEntries} :
        IsSourceList(list)}

ShortEngineLists == {<<>>, <<Entry(Mon06, Chuseok, FALSE)>>}

InitEngine ==
    /\ \/ /\ lunarTable \in RegularEngineTables
          /\ holidaySource \in {Source(list) : list \in EngineLists}
       \/ /\ lunarTable \in FailingEngineTables
          /\ holidaySource \in {Source(list) : list \in ShortEngineLists}
    /\ InitCaches

\* the holiday list getAllHolidayInfo hands to the engine for a target day:
\* the list of the target's year
ListOfYear(targetDate) == GetHolidays(CivilFromDays(targetDate).year)

\* checkForSubstituteHoliday with its local values: the holidays collected
\* at originalDate, shouldCreateSubstitute, the next workday (0 when the
\* function returns before it is computed) and isSubstitute
CheckOutcome(holidaysOnDate, originalDate, targetDate, holidayList) ==
    [holidaysOnDate |-> holidaysOnDate,
     required       |-> /\ Len(holidaysOnDate) # 0
                        /\ ShouldCreateSubstitute(originalDate, holidaysOnDate),
     nextWorkday    |-> IF /\ Len(holidaysOnDate) # 0
                           /\ ShouldCreateSubstitute(originalDate, holidaysOnDate)
                        THEN FindNextWorkday(originalDate, holidayList)
                        ELSE 0,
     isSubstitute   |-> CheckHolidaysOnDate(holidaysOnDate, originalDate,
                                            targetDate, holidayList)]

\* lunarHolidayFor: a call of getLunarHolidayInfo(year, month, day)
LunarHolidayFor(date) ==
    /\ \E c \in {CivilFromDays(date)} :
       \E r \in {GetLunarHolidayInfo(c.year, c.month, c.date)} :
           last' = [NoCall EXCEPT !.op = "getLunarHolidayInfo",
                       !.year = c.year, !.month = c.month, !.day = c.date,
                       !.error = r.error, !.name = r.name, !.type = r.type]
    /\ UNCHANGED <<env, app, mobile, holidayCache, lunarCache,
                   calendarCache, fetchCount, ncalls>>

\* substituteFor: a call of getSubstituteHolidayInfo(year, month, day,
\* holidayList)
SubstituteFor(date) ==
    /\ \E c \in {CivilFromDays(date)} :
       \E r \in {GetSubstituteHolidayInfo(c.year, c.month, c.date,
                                          ListOfYear(date))} :
           last' = [NoCall EXCEPT !.op = "getSubstituteHolidayInfo",
                       !.year = c.year, !.month = c.month, !.day = c.date,
                       !.error = r.error, !.name = r.name, !.type = r.type]
    /\ UNCHANGED <<env, app, mobile, holidayCache, lunarCache,
                   calendarCache, fetchCount, ncalls>>

\* a call of checkForSubstituteHoliday(originalDate, targetDate, holidayList)
CheckOrigin(originalDate, targetDate) ==
    /\ \E c \in {CivilFromDays(targetDate)} :
       \E r \in {CheckOutcome(HolidaysOnDate(originalDate,
                                               ListOfYear(targetDate)),
                               originalDate, targetDate,
                               ListOfYear(targetDate))} :
           last' = [NoCall EXCEPT !.op = "checkForSubstituteHoliday",
                       !.year = c.year, !.month = c.month, !.day = c.date,
                       !.origin = originalDate,
                       !.holidaysOnDate = r.holidaysOnDate,
                       !.required = r.required,
                       !.nextWorkday = r.nextWorkday,
                       !.isSubstitute = r.isSubstitute]
    /\ UNCHANGED <<env, app, mobile, holidayCache, lunarCache,
                   calendarCache, fetchCount, ncalls>>

\* a call of findNextWorkday(fromDate, holidayList)
NextWorkday(fromDate) ==
    /\ \E r \in {FindNextWorkday(fromDate, ListOfYear(fromDate))} :
           last' = [NoCall EXCEPT !.op = "findNextWorkday",
                       !.origin = fromDate,
                       !.error = IF r = -1 THEN "NoReturn" ELSE "",
                       !.nextWorkday = r]
    /\ UNCHANGED <<env, app, mobile, holidayCache, lunarCache,
                   calendarCache, fetchCount, ncalls>>

NextEngine ==
    \/ \E date \in EngineDays : LunarHolidayFor(date)
    \/ \E date \in EngineDays : SubstituteFor(date)
    \/ \E originalDate, targetDate \in EngineDays :
          /\ originalDate < targetDate
          /\ targetDate - originalDate <= 7
          /\ CheckOrigin(originalDate, targetDate)
    \/ \E fromDate \in EngineDays : NextWorkday(fromDate)

SpecEngine == InitEngine /\ [][NextEngine]_vars

-----------------------------------------------------------------------------
(* classify called on the days of the October week, through the caches *)

\* the dates asked about: Sat 2025-10-04 .. Tue 2025-10-07
WeekDates ==
    {<<CivilFromDays(s).year, CivilFromDays(s).month, CivilFromDays(s).date>> :
        s \in Sat04..(Mon06 + 1)}

NextWeek ==
    \/ \E c \in WeekDates, sourceThrows \in BOOLEAN :
          Classify(c[1], c[2], c[3], sourceThrows)
    \/ CacheClear

SpecWeek == InitEngine /\ [][NextWeek]_vars

-----------------------------------------------------------------------------
(* classify called on the days around New Year 2026, through the caches *)

\* the dates asked about: Wed 2025-12-31, Thu 2026-01-01 and Fri 2026-01-02,
\* a day the converter's table does not cover
NewYearDates ==
    {<<CivilFromDays(s).year, CivilFromDays(s).month, CivilFromDays(s).date>> :
        s \in Wed31..(Thu01 + 1)}

NextNewYear ==
    \/ \E c \in NewYearDates, sourceThrows \in BOOLEAN :
          Classify(c[1], c[2], c[3], sourceThrows)
    \/ CacheClear

SpecNewYear == Init /\ [][NextNewYear]_vars

-----------------------------------------------------------------------------
(* findNextWorkday step by step: one action per iteration of its loop.
   While the walk runs, "last" holds the call's position: op is
   "findNextWorkday:while" and nextWorkday is the variable nextDay. *)

Walking == last.op = "findNextWorkday:while"

\* const nextDay = new Date(fromDate); nextDay.setDate(nextDay.getDate() + 1)
StartWalk(fromDate) ==
    /\ ~Walking
    /\ last' = [NoCall EXCEPT !.op = "findNextWorkday:while",
                    !.origin = fromDate, !.nextWorkday = fromDate + 1]
    /\ UNCHANGED <<env, app, mobile, holidayCache, lunarCache,
                   calendarCache, fetchCount, ncalls>>

\* one iteration of while (true): a weekend day or a holiday moves nextDay
\* on, any other day ends the loop and is returned.  The walk is followed
\* for MaxWalk days.
WalkStep ==
    /\ Walking
    /\ last.nextWorkday - last.origin <= MaxWalk
    /\ IF GetDay(last.nextWorkday) = 0 \/ GetDay(last.nextWorkday) = 6
       THEN last' = [last EXCEPT !.nextWorkday = @ + 1]
       ELSE IF ~IsDateHoliday(last.nextWorkday, ListOfYear(last.origin))
            THEN last' = [last EXCEPT !.op = "findNextWorkday"]
            ELSE last' = [last EXCEPT !.nextWorkday = @ + 1]
    /\ UNCHANGED <<env, app, mobile, holidayCache, lunarCache,
                   calendarCache, fetchCount, ncalls>>

NextWalk ==
    \/ \E fromDate \in EngineDays : StartWalk(fromDate)
    \/ WalkStep

\* the loop is synchronous code: once entered, its iterations run
SpecWalk == InitEngine /\ [][NextWalk]_vars /\ WF_vars(WalkStep)

-----------------------------------------------------------------------------
(* The page on its own: changes of currentDate, the clock, the timeouts *)

\* the URLs the page is opened at
OpenedAt ==
    {NoParams, Params(2025, 12), Params(2025, 13), Params(1899, 1),
     Params(1900, 1), Params(50, 6)}

InitApp ==
    /\ lunarTable = LunarTable(Wed31, 1, 1, {})
    /\ holidaySource = Source(<<>>)
    /\ holidayCache = <<>>
    /\ lunarCache = <<>>
    /\ calendarCache = <<>>
    /\ fetchCount = [y \in Years |-> 0]
    /\ ncalls = 0
    /\ last = NoCall
    /\ \E u \in OpenedAt : AppLoaded(u)
    /\ CalendarMounted(FALSE)

NextApp ==
    \/ \E key \in {"ArrowLeft", "ArrowRight", "ArrowUp", "ArrowDown"} :
          KeyNavigation(key)
    \/ Tick
    \/ TimeoutRuns

\* time passes, and the browser runs the timeouts that are due
SpecApp == InitApp /\ [][NextApp]_vars /\ WF_vars(Tick) /\ WF_vars(TimeoutRuns)

-----------------------------------------------------------------------------
(* The mobile view on its own *)

\* the scroll positions the user leaves the view at
ScrollPositions == 0..(WINDOW_SIZE - 1)

InitMobile ==
    /\ lunarTable = LunarTable(Wed31, 1, 1, {})
    /\ holidaySource = Source(<<>>)
    /\ holidayCache = <<>>
    /\ lunarCache = <<>>
    /\ calendarCache = <<>>
    /\ fetchCount = [y \in Years |-> 0]
    /\ ncalls = 0
    /\ last = NoCall
    /\ AppLoaded(NoParams)
    /\ CalendarMounted(TRUE)

NextMobile ==
    \/ InitializeWindow
    \/ \E position \in ScrollPositions : Scroll(position)
    \/ UpdateSlidingWindowSmoothly
    \/ AnimationFrame

SpecMobile == InitMobile /\ [][NextMobile]_vars

-----------------------------------------------------------------------------
(* Properties.  "last" is the last engine call and what it returned. *)

\* the day the last call was about
LastDate == NewDate(last.year, last.month - 1, last.day)

\* the last call was classify and it returned
Classified == last.op = "getAllHolidayInfo" /\ last.error = ""

IsWeekday(date) == GetDay(date) \in 1..5

\* the raw entries the source lists on a day, in the list of the day's year
SourceOn(date) ==
    {holidaySource[CivilFromDays(date).year][i] :
        i \in {j \in 1..Len(holidaySource[CivilFromDays(date).year]) :
                  holidaySource[CivilFromDays(date).year][j].date = date}}

\* an entry the cleaning of the source drops: the retired Constitution Day,
\* and a Harvest Festival entry on a day whose lunar month is not 8
IsDroppedEntry(entry) ==
    \/ Includes(entry.name, "Jeheonjeol")
    \/ /\ Includes(entry.name, "Chuseok")
       /\ ToLunarOfDate(entry.date).ok
       /\ ToLunarOfDate(entry.date).month # 8

\* the day is present in the cleaned holiday set of its year
InCleanedSet(date) == \E entry \in SourceOn(date) : ~IsDroppedEntry(entry)

\* the source flags an entry on the day as a substitute holiday
FlaggedOn(date) == \E entry \in SourceOn(date) : entry.substitute

\* the names of one holiday family in a sequence or a set of names
FamilyIn(names, family) ==
    {i \in DOMAIN names : Includes(names[i], family)}

Families == {"Seollal", "Chuseok"}

\* C1 as stated: a date classified SUBSTITUTE is a weekday and is not
\* present in the cleaned holiday set of its year, whichever way the type
\* was assigned (flagged source entry or rule engine).
C1_SubstituteIsOrdinaryWeekday ==
    (Classified /\ last.type = "substitute")
        => (IsWeekday(LastDate) /\ ~InCleanedSet(LastDate))

\* C1 amended: a date classified SUBSTITUTE on which the source flags no
\* entry as substitute (the type comes from the rule engine) is a weekday
\* and is not present in the cleaned holiday set of its year.
C1_EngineSubstituteIsOrdinaryWeekday ==
    (Classified /\ last.type = "substitute" /\ ~FlaggedOn(LastDate))
        => (IsWeekday(LastDate) /\ ~InCleanedSet(LastDate))

\* C1 witness: the rule engine made the Monday after a Saturday holiday a
\* substitute holiday.
C1_EngineSubstituteOnMonday ==
    /\ Classified /\ last.type = "substitute"
    /\ ~FlaggedOn(LastDate)
    /\ GetDay(LastDate) = 1
    /\ InCleanedSet(LastDate - 2)

\* the names that are not substitute-holiday names on a day: those of the
\* unflagged source entries and the lunar span name
NonSubstituteNames(date) ==
    {entry.name : entry \in {e \in SourceOn(date) : ~e.substitute}}
        \cup {GetLunarHolidayInfoOfDate(date).name}

\* C2 as stated: whenever the type is SUBSTITUTE, allNames holds no
\* non-substitute holiday name (no other source entry of the date, no
\* lunar span name).
C2_SubstituteHasNoOriginalName ==
    (Classified /\ last.type = "substitute")
        => \A i \in DOMAIN last.names :
               last.names[i] \notin NonSubstituteNames(LastDate)

\* C2 amended: whenever the type is SUBSTITUTE and the source flags no
\* entry of the date as substitute, allNames is exactly the one name of
\* the rule engine.
C2_EngineSubstituteIsAlone ==
    (Classified /\ last.type = "substitute" /\ ~FlaggedOn(LastDate))
        => (last.names = <<Daechegonghyuil>> /\ last.name = Daechegonghyuil)

\* C2 witness: a Tuesday is the substitute of a Sunday inside a lunar span
\* and carries the substitute name alone.
C2_SubstituteAfterLunarSunday ==
    /\ Classified /\ last.type = "substitute"
    /\ last.names = <<Daechegonghyuil>>
    /\ GetDay(LastDate) = 2
    /\ GetLunarHolidayInfoOfDate(LastDate - 2).name # <<>>

\* C3: whatever the source returns, neither primaryName nor any element of
\* allNames is a name containing the retired Constitution Day name.
C3_NoConstitutionDay ==
    Classified =>
        /\ ~Includes(last.name, "Jeheonjeol")
        /\ \A i \in DOMAIN last.names : ~Includes(last.names[i], "Jeheonjeol")

\* C3 witness: a date on which the source lists Constitution Day beside
\* another holiday was classified.
C3_ConstitutionDayListed ==
    /\ Classified
    /\ \E entry \in SourceOn(LastDate) : Includes(entry.name, "Jeheonjeol")
    /\ last.names # <<>>

\* C4 as stated: allNames never holds two names of the same holiday
\* family, whether they come from the source and the lunar resolver or
\* both from the source.
C4_OneNamePerFamily ==
    Classified =>
        \A family \in Families : Cardinality(FamilyIn(last.names, family)) <= 1

\* the distinct names of a family the source lists on a day
SourceFamilyNames(date, family) ==
    {entry.name : entry \in {e \in SourceOn(date) : Includes(e.name, family)}}

\* C4 amended: allNames holds no name twice, and holds more than one name
\* of a family only when the source itself lists several names of that
\* family on the date, and then no more than the source lists: the lunar
\* span name is never added beside a source name of its family.
C4_NoLunarDuplicateOfFamily ==
    Classified =>
        /\ \A i, j \in DOMAIN last.names :
               last.names[i] = last.names[j] => i = j
        /\ \A family \in Families :
               \/ Cardinality(FamilyIn(last.names, family)) <= 1
               \/ Cardinality(FamilyIn(last.names, family))
                      <= Cardinality(SourceFamilyNames(LastDate, family))

\* C4 witness: the source lists a Harvest Festival name on a day the lunar
\* resolver names differently in the same family, and one name is kept.
C4_SourceAndLunarCollapse ==
    /\ Classified
    /\ \E entry \in SourceOn(LastDate) :
           /\ Includes(entry.name, "Chuseok")
           /\ Includes(GetLunarHolidayInfoOfDate(LastDate).name, "Chuseok")
           /\ entry.name # GetLunarHolidayInfoOfDate(LastDate).name
    /\ Cardinality(FamilyIn(last.names, "Chuseok")) = 1

\* C5: within one cache lifetime the result of classify(d) is a function
\* of d alone (given what the providers hold): whatever was classified
\* before, it is what the aggregator computes from the source's list of
\* d's year, so repeated calls return identical results.
C5_ClassifyDependsOnDateOnly ==
    Classified =>
        \E fresh \in {GetAllHolidayInfo(GetHolidays(last.year), last.year,
                                        last.month, last.day)} :
            /\ last.name = fresh.name
            /\ last.names = fresh.names
            /\ last.type = fresh.type

\* C5 witness: a classification answered from the cache an earlier call
\* for another date filled, with a holiday to report.
C5_AnsweredFromCache ==
    /\ Classified
    /\ ncalls = 2
    /\ "source" \notin last.asked
    /\ last.year \in DOMAIN holidayCache
    /\ last.names # <<>>

\* C6: over any sequence of classify calls in one process lifetime the
\* holiday source is asked for a given year at most once.
C6_SourceAskedOncePerYear == \A y \in Years : fetchCount[y] <= 1

\* C7: a Converter failure on any conversion never escapes classify or
\* lunarMarker: lunarMarker always returns, and classify returns whenever
\* the holiday source answers.
C7_ConversionFailureNeverEscapes ==
    /\ last.op = "getLunarDate" => last.error = ""
    /\ last.op = "getAllHolidayInfo" => last.error \in {"", "SourceFetchError"}

\* C7 witness: classify returned for a date whose own conversion fails
\* and on which the source lists a Harvest Festival entry to re-check.
C7_RecheckFailedAndReturned ==
    /\ Classified
    /\ ~ToLunarOfDate(LastDate).ok
    /\ \E entry \in SourceOn(LastDate) : Includes(entry.name, "Chuseok")
    /\ last.names # <<>>

\* the holiday source failed in the last render: it was asked for the
\* year and nothing is cached
SourceFailedInRender ==
    /\ last.op = "generateCalendarDates"
    /\ fetchCount[last.year] > 0
    /\ last.year \notin DOMAIN holidayCache

\* C8: when the holiday source fails for a year, the grid of a month of
\* that year is still produced, and its cells carry no holiday annotation.
C8_GridSurvivesSourceFailure ==
    SourceFailedInRender =>
        /\ last.error = ""
        /\ last.weeks # <<>>
        /\ \A w \in DOMAIN last.weeks : \A k \in DOMAIN last.weeks[w] :
               /\ last.weeks[w][k].holidays = <<>>
               /\ last.weeks[w][k].holidayType = ""

\* C9: classify and lunarMarker called with a malformed date fail with an
\* InvalidDateError before the Converter or the holiday source is called.
C9_MalformedDateRejected ==
    (/\ last.op \in {"getAllHolidayInfo", "getLunarDate"}
     /\ ~IsValidDate(last.year, last.month, last.day))
        => (last.error = "InvalidDateError" /\ last.asked = {})

\* C10 as stated: lunarMarker(date) is non-empty exactly when the date's
\* lunar day is 1 or 15 or the next solar day converts to lunar day 1;
\* when non-empty it is built from the date's own lunar month and day.
C10_MarkerExactlyWhen ==
    last.op = "getLunarDate" =>
        \E cur \in {ToLunar(last.year, last.month, last.day)},
           next \in {ToLunarOfDate(LastDate + 1)} :
            /\ (last.text # "") <=>
                   \/ cur.ok /\ cur.day \in {1, 15}
                   \/ next.ok /\ next.day = 1
            /\ last.text # "" => last.text = MarkerText(cur.month, cur.day)

\* C10 amended: for a date the Converter converts, lunarMarker(date) is
\* non-empty exactly when its lunar day is 1 or 15 or the next solar day
\* converts to lunar day 1, and it is then built from the date's own lunar
\* month and day; for a date whose own conversion fails it is empty, even
\* when the next day converts to lunar day 1.
C10_MarkerOfConvertedDate ==
    last.op = "getLunarDate" =>
        \E cur \in {ToLunar(last.year, last.month, last.day)},
           next \in {ToLunarOfDate(LastDate + 1)} :
            /\ (last.text # "") <=>
                   /\ cur.ok
                   /\ \/ cur.day \in {1, 15}
                      \/ next.ok /\ next.day = 1
            /\ last.text # "" => last.text = MarkerText(cur.month, cur.day)

\* C10 witness: the marker of a last day of a lunar month, which is
\* neither day 1 nor day 15.
C10_LastDayOfLunarMonthMarked ==
    /\ last.op = "getLunarDate"
    /\ last.text # ""
    /\ ToLunarOfDate(LastDate).ok
    /\ ToLunarOfDate(LastDate).day \notin {1, 15}
    /\ last.text = MarkerText(ToLunarOfDate(LastDate).month,
                              ToLunarOfDate(LastDate).day)

\* a conversion that gave the first day of the first lunar month
IsLunarNewYear(lunarDate) ==
    lunarDate.ok /\ lunarDate.month = 1 /\ lunarDate.day = 1

\* C11: lunarHolidayFor(date) applies its rules in order, first match wins:
\* lunar 1/1 on the date, on date+1 or on date-1 gives type LUNAR_NEW_YEAR;
\* otherwise lunar month 8 day 15 gives Harvest Festival and days 14 and 16
\* give Harvest Festival Holiday, type CHUSEOK; otherwise the name is empty
\* and the type NONE.  A date matching a Lunar New Year rule and the
\* Harvest Festival rule is LUNAR_NEW_YEAR.
C11_RulesInOrder ==
    last.op = "getLunarHolidayInfo" =>
        \E cur \in {ToLunarOfDate(LastDate)},
           next \in {ToLunarOfDate(LastDate + 1)},
           prev \in {ToLunarOfDate(LastDate - 1)} :
            IF IsLunarNewYear(cur) \/ IsLunarNewYear(next) \/ IsLunarNewYear(prev)
            THEN last.type = "lunar_new_year"
            ELSE IF cur.ok /\ cur.month = 8 /\ cur.day = 15
                 THEN last.name = Chuseok /\ last.type = "chuseok"
            ELSE IF cur.ok /\ cur.month = 8 /\ cur.day \in {14, 16}
                 THEN last.name = ChuseokYeonhyu /\ last.type = "chuseok"
            ELSE last.name = <<>> /\ last.type = ""

\* C12: the cleaned holiday set drops every source entry named Harvest
\* Festival whose own solar date converts to a lunar month other than 8,
\* whatever that month and the lunar day, and keeps those whose lunar
\* month is 8: the name of a dropped entry is not in allNames of its date,
\* the name of a kept entry is.
C12_HarvestEntryKeptExactlyInEighthMonth ==
    Classified =>
        \A entry \in SourceOn(LastDate) :
            Includes(entry.name, "Chuseok") =>
                \E lunarDate \in {ToLunarOfDate(entry.date)} :
                    /\ (lunarDate.ok /\ lunarDate.month # 8)
                           => \A i \in DOMAIN last.names :
                                  last.names[i] # entry.name
                    /\ (lunarDate.ok /\ lunarDate.month = 8)
                           => \E i \in DOMAIN last.names :
                                  last.names[i] = entry.name

\* lunarHolidayFor gives the day a name
CarriesLunarHoliday(date) == GetLunarHolidayInfoOfDate(date).name # <<>>

\* C13: substituteFor(date) returns SUBSTITUTE only if date is Monday to
\* Friday and carries no cleaned source holiday and no lunar holiday; for a
\* Saturday, a Sunday, or a date that is already a holiday it returns the
\* empty name and type NONE, whatever lies in the preceding 7 days.
C13_SubstituteOnlyOnOrdinaryWeekday ==
    last.op = "getSubstituteHolidayInfo" =>
        /\ last.type = "substitute" =>
               /\ IsWeekday(LastDate)
               /\ ~InCleanedSet(LastDate)
               /\ ~CarriesLunarHoliday(LastDate)
        /\ (\/ ~IsWeekday(LastDate)
            \/ InCleanedSet(LastDate)
            \/ CarriesLunarHoliday(LastDate)) =>
               /\ last.error = ""
               /\ last.name = <<>>
               /\ last.type = ""

\* C13 witness: substituteFor returned empty for a weekday that is itself
\* a lunar holiday and follows a Sunday of the same span, an origin that
\* requires substitution.
C13_HolidayAfterSundayOfSpan ==
    /\ last.op = "getSubstituteHolidayInfo"
    /\ IsWeekday(LastDate)
    /\ CarriesLunarHoliday(LastDate)
    /\ GetDay(LastDate - 1) = 0
    /\ CarriesLunarHoliday(LastDate - 1)
    /\ last.name = <<>> /\ last.type = ""

\* the names of the FULL group
FullNames ==
    {"Samiljeol", "Gwangbokjeol", "Gaecheonjeol", "Hangeullal", "Eorininal"}

\* a holiday of the FULL group is among the holidays collected at an origin
HasFullHoliday(collected) ==
    \E i \in DOMAIN collected :
        \E keyword \in FullNames : Includes(collected[i].name, keyword)

\* the type classify gives a day, from the source's list of the day's year
TypeOf(date) ==
    GetAllHolidayInfo(ListOfYear(date), CivilFromDays(date).year,
                      CivilFromDays(date).month, CivilFromDays(date).date).type

IsLunarFamilyName(name) == Includes(name, "Seollal") \/ Includes(name, "Chuseok")

\* holidays are collected at the origin and all are of the lunar families
OnlyLunarFamilies(collected) ==
    /\ collected # <<>>
    /\ \A i \in DOMAIN collected : IsLunarFamilyName(collected[i].name)

\* C15: an origin whose holidays are only Lunar New Year / Harvest Festival
\* family names requires substitution only if it is a Sunday: a Saturday
\* origin, or a weekday origin where the co-occurring names are all of the
\* lunar families, requires none; so when every holiday of the 7 days
\* before a date is of the lunar families and none of those days is a
\* Sunday, substituteFor does not make the date SUBSTITUTE.
C15_LunarFamiliesOnlyOnSunday ==
    /\ (last.op = "checkForSubstituteHoliday"
           /\ OnlyLunarFamilies(last.holidaysOnDate))
           => /\ last.required => GetDay(last.origin) = 0
              /\ GetDay(last.origin) # 0 => last.isSubstitute = "no"
    /\ (last.op = "getSubstituteHolidayInfo"
           /\ \A daysBack \in 1..7 :
                  \E collected \in {HolidaysOnDate(LastDate - daysBack,
                                                    ListOfYear(LastDate))} :
                      \/ collected = <<>>
                      \/ /\ OnlyLunarFamilies(collected)
                         /\ GetDay(LastDate - daysBack) # 0)
           => last.type # "substitute"

\* C15 witness: on a Monday the source's Harvest Festival entry and the
\* lunar-derived span name are collected together, and no substitution is
\* required.
C15_SourceAndSpanNameOnMonday ==
    /\ last.op = "checkForSubstituteHoliday"
    /\ OnlyLunarFamilies(last.holidaysOnDate)
    /\ Len(last.holidaysOnDate) = 2
    /\ GetDay(last.origin) = 1
    /\ ~last.required
    /\ last.isSubstitute = "no"

\* the keywords of the groups FULL and SUNDAY_ONLY
GroupKeywords == FullNames \cup {"31jeol"} \cup {"Seollal", "Chuseok"}

\* holidays are collected at the origin and all are of group NONE: none of
\* the names matches a keyword of another group
OnlyNoneGroup(collected) ==
    /\ collected # <<>>
    /\ \A i \in DOMAIN collected :
           \A keyword \in GroupKeywords : ~Includes(collected[i].name, keyword)

\* C16: an origin all of whose holidays are in group NONE never requires
\* substitution, whatever its weekday (Saturday and Sunday included) and
\* however many such holidays co-occur on it.
C16_NoneGroupNeverRequires ==
    (last.op = "checkForSubstituteHoliday" /\ OnlyNoneGroup(last.holidaysOnDate))
        => (~last.required /\ last.isSubstitute = "no")

\* C16 witness: two holidays of group NONE, one of them a name that
\* matches no group keyword, co-occur on a Sunday and require nothing.
C16_TwoNoneHolidaysOnSunday ==
    /\ last.op = "checkForSubstituteHoliday"
    /\ OnlyNoneGroup(last.holidaysOnDate)
    /\ Len(last.holidaysOnDate) = 2
    /\ GetDay(last.origin) = 0
    /\ ~last.required

\* a Monday-Friday that carries neither a cleaned source holiday nor a
\* lunar holiday
IsOrdinaryWeekday(date) ==
    /\ IsWeekday(date)
    /\ ~InCleanedSet(date)
    /\ ~CarriesLunarHoliday(date)

\* C17: the next workday after an origin is the earliest date strictly
\* after it that is Monday-Friday and carries neither a cleaned source
\* holiday nor a lunar holiday, every date strictly between the origin and
\* it being a Saturday, a Sunday or a holiday; hence a Sunday inside a
\* Harvest Festival span makes the first ordinary weekday after the rest of
\* the span classify SUBSTITUTE.
C17_NextWorkdayIsFirstOrdinaryWeekday ==
    last.op = "findNextWorkday" =>
        /\ last.error = ""
        /\ last.nextWorkday > last.origin
        /\ IsOrdinaryWeekday(last.nextWorkday)
        /\ \A date \in (last.origin + 1)..(last.nextWorkday - 1) :
               ~IsOrdinaryWeekday(date)
        /\ (/\ GetDay(last.origin) = 0
            /\ Includes(GetLunarHolidayInfoOfDate(last.origin).name, "Chuseok"))
               => TypeOf(last.nextWorkday) = "substitute"

\* the positions, in the list of the year of the last call, of the entries
\* of the day that the cleaning keeps
CleanedAt(date) ==
    {i \in DOMAIN GetHolidays(last.year) :
        /\ GetHolidays(last.year)[i].date = date
        /\ ~IsDroppedEntry(GetHolidays(last.year)[i])}

\* the type of a source entry: SUBSTITUTE if flagged, else by its family
TypeOfEntry(entry) ==
    IF entry.substitute THEN "substitute"
    ELSE IF Includes(entry.name, "Seollal") THEN "lunar_new_year"
    ELSE IF Includes(entry.name, "Chuseok") THEN "chuseok"
    ELSE "normal"

\* C18: when holidaysOn(date) is non-empty, classify(date).type is fixed by
\* the first cleaned source entry of the date: SUBSTITUTE if the source
\* flags it, else LUNAR_NEW_YEAR for a Lunar New Year family name, else
\* CHUSEOK for a Harvest Festival family name, else NORMAL; an unflagged
\* entry in neither lunar family, New Year's Day included, gives NORMAL.
C18_TypeOfFirstSourceEntry ==
    (/\ Classified
     /\ IsValidDate(last.year, last.month, last.day)
     /\ CleanedAt(LastDate) # {})
        => \E first \in {CHOOSE i \in CleanedAt(LastDate) :
                             \A j \in CleanedAt(LastDate) : i <= j} :
               last.type = TypeOfEntry(GetHolidays(last.year)[first])

\* C19: the rule engine is consulted only when no source name and no lunar
\* name was accumulated for the date; so the engine's name 'Substitute
\* Holiday', when present in allNames, is its only element, equals
\* primaryName, and the type is SUBSTITUTE.
C19_EngineNameOnlyWhenNothingAccumulated ==
    (Classified /\ \E i \in DOMAIN last.names : last.names[i] = Daechegonghyuil)
        => /\ last.names = <<Daechegonghyuil>>
           /\ last.name = Daechegonghyuil
           /\ last.type = "substitute"
           /\ CleanedAt(LastDate) = {}
           /\ ~CarriesLunarHoliday(LastDate)

\* C19 witness: a date with no source entry and no lunar name, two days
\* after a Saturday holiday of the source, got the engine's name.
C19_EngineNameOnEmptyDate ==
    /\ Classified
    /\ last.name = Daechegonghyuil
    /\ Len(last.names) = 1
    /\ SourceOn(LastDate) = {}
    /\ ~CarriesLunarHoliday(LastDate)
    /\ GetDay(LastDate - 2) = 6
    /\ SourceOn(LastDate - 2) # {}

\* what classify returns for a day, from the source's list of the day's year
ClassificationOf(date) ==
    GetAllHolidayInfo(ListOfYear(date), CivilFromDays(date).year,
                      CivilFromDays(date).month, CivilFromDays(date).date)

\* C20: for the three consecutive solar dates around lunar 1/1 (the day
\* before, the day of, the day after), each classifies with type
\* LUNAR_NEW_YEAR, the three names are pairwise distinct and all of the
\* Lunar New Year family, and none of the three is classified SUBSTITUTE.
C20_LunarNewYearTriple ==
    (/\ Classified
     /\ IsValidDate(last.year, last.month, last.day)
     /\ IsLunarNewYear(ToLunarOfDate(LastDate)))
        => \E before \in {ClassificationOf(LastDate - 1)},
              after \in {ClassificationOf(LastDate + 1)} :
               /\ before.error = "" /\ after.error = ""
               /\ before.type = "lunar_new_year"
               /\ last.type = "lunar_new_year"
               /\ after.type = "lunar_new_year"
               /\ before.name # last.name
               /\ last.name # after.name
               /\ before.name # after.name
               /\ Includes(before.name, "Seollal")
               /\ Includes(last.name, "Seollal")
               /\ Includes(after.name, "Seollal")

\* a holiday list as the cleaning of the source leaves it: without the
\* entries the cleaning drops
WithoutDropped(holidayList) ==
    SelectSeq(holidayList, LAMBDA entry : ~IsDroppedEntry(entry))

\* C21: the entries the cleaning drops (Constitution Day entries, Harvest
\* Festival entries on a day outside lunar month 8) have no effect on any
\* classification: classify(d) returns what it would return had the source
\* never contained them.
C21_DroppedEntriesHaveNoEffect ==
    (Classified /\ IsValidDate(last.year, last.month, last.day))
        => \E clean \in {GetAllHolidayInfo(WithoutDropped(GetHolidays(last.year)),
                                           last.year, last.month, last.day)} :
               /\ clean.error = ""
               /\ last.name = clean.name
               /\ last.names = clean.names
               /\ last.type = clean.type

\* C22: in lunarHolidayFor the conversions of the date, of date+1 and of
\* date-1 are guarded independently: a failure of one is 'no match' for
\* that probe only and the remaining rules are still evaluated.  So a date
\* whose own conversion fails while date+1 or date-1 is lunar 1/1 is still
\* a Lunar New Year span day, and a failing neighbour leaves the rules on
\* the date itself and on the other neighbour in force.
C22_ProbesGuardedIndependently ==
    last.op = "getLunarHolidayInfo" =>
        \E cur \in {ToLunarOfDate(LastDate)},
           next \in {ToLunarOfDate(LastDate + 1)},
           prev \in {ToLunarOfDate(LastDate - 1)} :
            /\ last.error = ""
            /\ (~cur.ok /\ (IsLunarNewYear(next) \/ IsLunarNewYear(prev)))
                   => (last.name = SeollalYeonhyu /\ last.type = "lunar_new_year")
            /\ (cur.ok /\ ~IsLunarNewYear(cur) /\ ~next.ok /\ IsLunarNewYear(prev))
                   => (last.name = SeollalYeonhyu /\ last.type = "lunar_new_year")
            /\ (cur.ok /\ ~IsLunarNewYear(cur) /\ ~prev.ok /\ IsLunarNewYear(next))
                   => (last.name = SeollalYeonhyu /\ last.type = "lunar_new_year")
            /\ (/\ cur.ok /\ cur.month = 8 /\ cur.day \in {14, 15, 16}
                /\ (~next.ok \/ ~prev.ok)
                /\ ~IsLunarNewYear(next) /\ ~IsLunarNewYear(prev))
                   => last.type = "chuseok"

ListOfOwnYears == GetHolidays(2025) \o GetHolidays(2026)

\* C24: when substituteFor(date) examines a day of another calendar year
\* than date (a lookback origin in late December for a date in early
\* January, a walk-forward candidate in January), the source holidays
\* considered for that day are the cleaned holidays of the day's own year:
\* with a source that lists no dropped entry, classify returns what the
\* engine returns when every day is looked up in its own year's list.
C24_OtherYearDayReadInOwnYear ==
    (/\ Classified
     /\ IsValidDate(last.year, last.month, last.day)
     /\ WithoutDropped(ListOfOwnYears) = ListOfOwnYears)
        => \E own \in {GetAllHolidayInfo(ListOfOwnYears, last.year,
                                         last.month, last.day)} :
               /\ own.error = ""
               /\ last.names = own.names
               /\ last.type = own.type

\* C25: findNextWorkday(origin) terminates and returns a date for every
\* origin, every finite source holiday list and every behaviour of the
\* converter, failing conversions included: a walk that has started ends,
\* and it returns the date the engine's callers (substituteFor, classify)
\* get from it, so these terminate as well.
C25_WalkTerminates ==
    /\ Walking ~> (last.op = "findNextWorkday")
    /\ [](last.op = "findNextWorkday" =>
             /\ last.nextWorkday > last.origin
             /\ last.nextWorkday
                    = FindNextWorkday(last.origin, ListOfYear(last.origin)))

\* C25 witness: a walk from the Friday that ends the converter's table went
\* over the weekend and returned the Monday, a day whose conversion fails.
C25_WalkEndedOnUnconvertibleDay ==
    /\ last.op = "findNextWorkday"
    /\ last.origin = Fri10
    /\ last.nextWorkday = Fri10 + 3
    /\ ~ToLunarOfDate(last.nextWorkday).ok

\* C26: the three outputs of classify agree on emptiness: the type is empty
\* (NONE) if and only if allNames is empty if and only if primaryName is
\* empty; and when allNames is not empty primaryName is its first element.
C26_OutputsAgreeOnEmptiness ==
    Classified =>
        /\ (last.type = "") <=> (last.names = <<>>)
        /\ (last.names = <<>>) <=> (last.name = <<>>)
        /\ last.names # <<>> => last.name = last.names[1]

\* C26 witness: a date with a lunar name only, and so typed by it.
C26_LunarNameAlone ==
    /\ Classified
    /\ SourceOn(LastDate) = {}
    /\ last.names = <<GetLunarHolidayInfoOfDate(LastDate).name>>
    /\ last.name = last.names[1]
    /\ last.type \in {"lunar_new_year", "chuseok"}

\* the n-th cell of a grid of weeks, counted from 1 along the rows
CellOf(weeks, n) == weeks[((n - 1) \div 7) + 1][((n - 1) % 7) + 1]

\* C27: in the month grid the cells before day 1 are as many as the
\* weekday index of day 1 (Sunday = 0) and are numbered with the last days
\* of the immediately preceding month, ascending and ending at that
\* month's last day; then come the days 1..daysInMonth once each; and the
\* number of cells is a multiple of 7.
C27_GridLayout ==
    (last.op = "generateCalendarDates" /\ last.error = "") =>
        \E firstDay \in {GetDay(NewDate(last.year, last.month, 1))},
           daysInMonth \in {GetDaysInMonth(last.year, last.month)},
           prevMonthDays \in {GetDaysInMonth(last.year, last.month - 1)} :
            /\ \A w \in DOMAIN last.weeks : Len(last.weeks[w]) = 7
            /\ 7 * Len(last.weeks) >= firstDay + daysInMonth
            /\ \A n \in 1..(7 * Len(last.weeks)) :
                   CellOf(last.weeks, n).isCurrentMonth
                       <=> n \in (firstDay + 1)..(firstDay + daysInMonth)
            /\ \A n \in 1..firstDay :
                   CellOf(last.weeks, n).date = prevMonthDays - firstDay + n
            /\ \A day \in 1..daysInMonth :
                   CellOf(last.weeks, firstDay + day).date = day

\* the URL holds the year and the 1-based month of currentDate
UrlIsCurrent == url = Params(currentDate.year, currentDate.month + 1)

\* a step that runs a callback which rewrites the URL runs the timeout set
\* by the most recent change, 300 ms or more after it was set
WrittenByLatestTimer ==
    history.written' # history.written =>
        \E t \in timers :
            /\ t.handle = nchanges
            /\ t.elapsed >= UrlUpdateDelay
            /\ history.written' = history.written \cup {t.handle}
            /\ url' = Params(currentDate.year, currentDate.month + 1)

\* C28 as stated: the URL is rewritten only by the timer armed by the most
\* recent change of currentDate; a date replaced less than 300 ms after it
\* was set is never written to the URL; and once the changes stop the URL
\* eventually holds the year and the 1-based month of the latest
\* currentDate.
C28_UrlFollowsLatestChange ==
    /\ [][WrittenByLatestTimer]_vars
    /\ [](history.early \cap history.written = {})
    /\ <>[]UrlIsCurrent

\* C28 amended: the same, except that the callback of the latest timer may
\* find replaceState throwing; it catches the exception, the URL then
\* keeps what it held and nothing writes it later.
C28_UrlFollowsLatestChangeUnlessRefused ==
    /\ [][WrittenByLatestTimer]_vars
    /\ [](history.early \cap history.written = {})
    /\ <>[](UrlIsCurrent \/ nchanges \in history.refused)
    /\ [](nchanges \in history.refused => timers = {})

\* C28 witness: the second date was replaced less than 300 ms after it was
\* set and never written; the first and the third were written, and the
\* URL holds the third.
C28_SecondDateSkipped ==
    /\ nchanges = 3
    /\ history.early = {2}
    /\ history.written = {1, 3}
    /\ UrlIsCurrent
    /\ url # Params(2025, 12)

\* the months of the window are consecutive
ConsecutiveMonths(data) ==
    \A k \in 1..(Len(data) - 1) :
        12 * data[k + 1].year + data[k + 1].month
            = 12 * data[k].year + data[k].month + 1

\* C29: on mobile, after initialization and after any sequence of window
\* updates, endlessCalendarData holds exactly 49 entries for 49 consecutive
\* months, from base month + windowOffset - 24 to base month + windowOffset
\* + 24 in order; windowOffset is a multiple of 8; and no second window
\* shift is applied while isUpdatingData is true.
C29_WindowOfFortyNineMonths ==
    /\ []((isMobile /\ endlessCalendarData # <<>>) =>
            /\ Len(endlessCalendarData) = 49
            /\ ConsecutiveMonths(endlessCalendarData)
            /\ 12 * endlessCalendarData[1].year + endlessCalendarData[1].month
                   = 12 * BaseDate.year + BaseDate.month + windowOffsetRef - 24
            /\ 12 * endlessCalendarData[49].year + endlessCalendarData[49].month
                   = 12 * BaseDate.year + BaseDate.month + windowOffsetRef + 24
            /\ \A k \in 1..49 : endlessCalendarData[k].month \in 0..11)
    /\ [](windowOffsetRef % 8 = 0)
    /\ [][(windowOffsetRef' # windowOffsetRef
              \/ endlessCalendarData' # endlessCalendarData)
             => ~isUpdatingData]_vars

\* C29 witness: the window has been shifted twice towards the past and the
\* second update is over; it runs from 40 months before the base month.
C29_ShiftedTwiceTowardsThePast ==
    /\ isMobile
    /\ windowOffsetRef = -16
    /\ ~isUpdatingData
    /\ Len(endlessCalendarData) = 49
    /\ endlessCalendarData[1] = MonthDate(BaseDate.year, BaseDate.month - 40)
    /\ endlessCalendarData[49] = MonthDate(BaseDate.year, BaseDate.month + 8)

\* C30: for every year the calendar can display, reached from the start
\* month by arrow keys or given in the URL, years before 1900 included,
\* getZodiacInfo(year) returns one of the twelve zodiac entries, the one at
\* index (year - 1900) modulo 12, 1900 being the rat.
C30_ZodiacOfDisplayedYear ==
    /\ zodiacInfo \in {zodiacAnimals[k] : k \in 1..12}
    /\ zodiacInfo = zodiacAnimals[((currentDate.year - 1900) % 12) + 1]

====
